---------------------------- MODULE Spec2Model ----------------------------
(***************************************************************************)
(* Model of the static-analysis engine of backend/app.py: the file         *)
(* analyser (analyze_python_file), the project walker, the import graph    *)
(* resolver and the report aggregator (analyze_project).                   *)
(*                                                                         *)
(* Conventions.                                                            *)
(*  - Python str values are TLA+ strings; s[i:j] is SubSeq, + is \o.       *)
(*  - Python None, where the code only tests it for truthiness, is the     *)
(*    empty string.                                                        *)
(*  - A float with two decimals is the integer number of hundredths        *)
(*    (volume 4.75 is 475); round(x, 2) yields hundredths.                 *)
(*  - The parser, radon and the file system are collaborators: what they   *)
(*    return for a file is part of that file's content record.             *)
(***************************************************************************)
EXTENDS Integers, Sequences, FiniteSets, TLC

(***************************************************************************)
(* str methods used by the engine                                          *)
(***************************************************************************)

\* s.startswith(p)
StartsWith(s, p) == Len(p) <= Len(s) /\ SubSeq(s, 1, Len(p)) = p

\* s.endswith(p)
EndsWith(s, p) == Len(p) <= Len(s) /\ SubSeq(s, Len(s) - Len(p) + 1, Len(s)) = p

\* s.find(old) + 1: the first position where old occurs in s, 0 when absent
Find(s, old) ==
    LET hits == {i \in 1..(Len(s) - Len(old) + 1) : SubSeq(s, i, i + Len(old) - 1) = old}
    IN  IF hits = {} THEN 0 ELSE CHOOSE i \in hits : \A j \in hits : i <= j

\* s.rfind(old) + 1: the last position where old occurs in s, 0 when absent
RFind(s, old) ==
    LET hits == {i \in 1..(Len(s) - Len(old) + 1) : SubSeq(s, i, i + Len(old) - 1) = old}
    IN  IF hits = {} THEN 0 ELSE CHOOSE i \in hits : \A j \in hits : i >= j

\* s.replace(old, new) for a non-empty old: leftmost non-overlapping occurrences
RECURSIVE Replace(_, _, _)
Replace(s, old, new) ==
    LET i == Find(s, old)
    IN  IF i = 0 THEN s
        ELSE SubSeq(s, 1, i - 1) \o new
             \o Replace(SubSeq(s, i + Len(old), Len(s)), old, new)

\* s.lstrip('.')
RECURSIVE LStripDots(_)
LStripDots(s) == IF StartsWith(s, ".") THEN LStripDots(SubSeq(s, 2, Len(s))) ELSE s

\* s.rstrip('/')
RECURSIVE RStripSep(_)
RStripSep(s) == IF EndsWith(s, "/") THEN RStripSep(SubSeq(s, 1, Len(s) - 1)) ELSE s

\* '.' * n
RECURSIVE Dots(_)
Dots(n) == IF n <= 0 THEN "" ELSE "." \o Dots(n - 1)

(***************************************************************************)
(* os.path on a POSIX host                                                 *)
(***************************************************************************)

\* os.sep
sep == "/"

\* os.path.dirname(p)
Dirname(p) ==
    LET i    == RFind(p, sep)
        head == SubSeq(p, 1, i)
    IN  IF head # "" /\ RStripSep(head) # "" THEN RStripSep(head) ELSE head

\* os.path.join(a, b)
PathJoin(a, b) ==
    IF StartsWith(b, sep) THEN b
    ELSE IF a = "" \/ EndsWith(a, sep) THEN a \o b
    ELSE a \o sep \o b

\* os.path.relpath(os.path.join(root, ..., file), project_path) for the file
\* reached from the project root through the directory names segs[1..n-1]
RECURSIVE RelPath(_)
RelPath(segs) ==
    IF Len(segs) = 0 THEN ""
    ELSE IF Len(segs) = 1 THEN segs[1]
    ELSE segs[1] \o sep \o RelPath(Tail(segs))

(***************************************************************************)
(* Python dict with insertion order: a sequence of <<key, value>> pairs    *)
(* with distinct keys                                                      *)
(***************************************************************************)

\* key in d
HasKey(d, k) == \E i \in 1..Len(d) : d[i][1] = k

\* d[key], for a key of d
Lookup(d, k) == d[CHOOSE i \in 1..Len(d) : d[i][1] = k][2]

\* d[key] = value: an existing key keeps its position, a new key goes last
DictSet(d, k, v) ==
    IF HasKey(d, k)
    THEN [i \in 1..Len(d) |-> IF d[i][1] = k THEN <<k, v>> ELSE d[i]]
    ELSE Append(d, <<k, v>>)

\* the empty dict {} of a halstead field
EmptyDict == <<>>

(***************************************************************************)
(* The syntax tree ast.parse returns                                       *)
(*                                                                         *)
(* A node is a record                                                      *)
(*   kind      the node class: "Module", "FunctionDef", "If", ...          *)
(*   lineno    node.lineno                                                 *)
(*   name      node.name of a definition, node.id of a Name                *)
(*   nargs     len(node.args.args) of a definition                         *)
(*   nposonly  len(node.args.posonlyargs) of a definition                  *)
(*   vtype     type(node.value).__name__ of a Constant                     *)
(*   value     str(node.value) of a Constant                               *)
(*   children  ast.iter_child_nodes(node), in field order                  *)
(* The children that no walk of the engine looks at (expression contexts,  *)
(* operator tokens, the arguments node of a definition) are left out.      *)
(***************************************************************************)

Node(kind, lineno, children) ==
    [kind |-> kind, lineno |-> lineno, name |-> "", nargs |-> 0, nposonly |-> 0,
     vtype |-> "", value |-> "", children |-> children]

\* a module with these statements
Module(body) == Node("Module", 0, body)

\* def name(<nargs parameters>): body
FunctionDef(name, lineno, nargs, body) ==
    [Node("FunctionDef", lineno, body) EXCEPT !.name = name, !.nargs = nargs]

\* async def name(<nargs parameters>): body
AsyncFunctionDef(name, lineno, nargs, body) ==
    [Node("AsyncFunctionDef", lineno, body) EXCEPT !.name = name, !.nargs = nargs]

\* def name(<nposonly parameters>, /): body
PosOnlyFunctionDef(name, lineno, nposonly, body) ==
    [Node("FunctionDef", lineno, body) EXCEPT !.name = name, !.nposonly = nposonly]

\* class name: body
ClassDef(name, lineno, body) == [Node("ClassDef", lineno, body) EXCEPT !.name = name]

\* if test: body  else: orelse   (an elif is an If that is the whole orelse)
If(lineno, test, body, orelse) == Node("If", lineno, <<test>> \o body \o orelse)

\* for target in iter: body
For(lineno, target, iter, body) == Node("For", lineno, <<target, iter>> \o body)

\* try: body  except ...: handlers
Try(lineno, body, handlers) == Node("Try", lineno, body \o handlers)

\* except type: body
ExceptHandler(lineno, type, body) == Node("ExceptHandler", lineno, <<type>> \o body)

\* return value
Return(lineno, value) == Node("Return", lineno, <<value>>)

\* an expression statement
Expr(lineno, value) == Node("Expr", lineno, <<value>>)

\* body if test else orelse
IfExp(lineno, test, body, orelse) == Node("IfExp", lineno, <<test, body, orelse>>)

\* values[1] and values[2] and ...   (or `or`)
BoolOp(lineno, values) == Node("BoolOp", lineno, values)

\* left <op> comparators[1] <op> comparators[2] ...
Compare(lineno, left, comparators) == Node("Compare", lineno, <<left>> \o comparators)

\* node.comparators of a Compare
Comparators(node) == Tail(node.children)

\* left <op> right
BinOp(lineno, left, right) == Node("BinOp", lineno, <<left, right>>)

\* -operand
UnaryOp(lineno, operand) == Node("UnaryOp", lineno, <<operand>>)

\* func(args[1], args[2], ...)
Call(lineno, func, args) == Node("Call", lineno, <<func>> \o args)

\* value[slice]
Subscript(lineno, value, slice) == Node("Subscript", lineno, <<value, slice>>)

\* target = value
Assign(lineno, target, value) == Node("Assign", lineno, <<target, value>>)

\* pass
Pass(lineno) == Node("Pass", lineno, <<>>)

\* an identifier
Name(lineno, id) == [Node("Name", lineno, <<>>) EXCEPT !.name = id]

\* a literal
Constant(lineno, vtype, value) ==
    [Node("Constant", lineno, <<>>) EXCEPT !.vtype = vtype, !.value = value]

\* isinstance(value, int): bool is a subclass of int
IsInstanceInt(vtype) == vtype \in {"int", "bool"}

\* ast.walk(node): breadth first, the deque of nodes still to yield
RECURSIVE Walk(_)
Walk(todo) ==
    IF todo = <<>> THEN <<>>
    ELSE <<Head(todo)>> \o Walk(Tail(todo) \o Head(todo).children)

(***************************************************************************)
(* ImportVisitor                                                           *)
(*                                                                         *)
(* An import statement of a parsed file is a record                        *)
(*   [kind |-> "Import", names |-> <<alias names>>, module |-> "",         *)
(*    level |-> 0]                   import a, b.c                         *)
(*   [kind |-> "ImportFrom", names |-> <<>>, module |-> m, level |-> L]    *)
(*                                   from <L dots><m> import x             *)
(* with module "" for ast's module None (from . import x).                 *)
(***************************************************************************)

\* ImportVisitor.visit_Import: one entry per alias
visit_Import(imports, node) == imports \o node.names

\* ImportVisitor.visit_ImportFrom
visit_ImportFrom(imports, node) ==
    IF node.module # "" THEN Append(imports, node.module)
    ELSE IF node.level > 0
         THEN LET relative_import == Dots(node.level)
              IN  Append(imports,
                         IF node.module # "" THEN relative_import \o node.module
                         ELSE relative_import)
         ELSE imports

\* ImportVisitor.visit over the import statements of a tree, in source order
RECURSIVE ImportVisitor(_, _)
ImportVisitor(imports, stmts) ==
    IF stmts = <<>> THEN imports
    ELSE ImportVisitor(
             IF Head(stmts).kind = "Import" THEN visit_Import(imports, Head(stmts))
             ELSE visit_ImportFrom(imports, Head(stmts)),
             Tail(stmts))

(***************************************************************************)
(* analyze_python_file                                                     *)
(*                                                                         *)
(* The content of a file is a record                                       *)
(*   readable      open/read succeeds (no IOError, no UnicodeDecodeError)  *)
(*   parse         what ast.parse does on the text: "ok", "SyntaxError",   *)
(*                 or "RecursionError" (an exception that is no            *)
(*                 SyntaxError)                                            *)
(*   loc           radon's raw loc                                         *)
(*   fallback_loc  the count of non-blank, non-# lines                     *)
(*   error_line    lineno of the SyntaxError                               *)
(*   halstead      the dict calculate_halstead_from_ast builds             *)
(*   stmts         the import statements of the tree                       *)
(*   blocks        radon's ComplexityVisitor blocks: [name, complexity,    *)
(*                 lineno], the functions outside classes first, then each *)
(*                 class followed by its methods; a function nested in a   *)
(*                 function is no block                                    *)
(*   tree          the Module node ast.parse returns                       *)
(*   faults        the steps that raise on this text for a reason other    *)
(*                 than ast.parse: "raw" (radon's analyze), "halstead"     *)
(*                 (the walk of calculate_halstead_from_ast), "imports"    *)
(*                 (the visitor), "complexity" (radon's visitor or the     *)
(*                 cognitive walk)                                         *)
(***************************************************************************)

\* lines 271-281: radon's loc, or the fallback count when analyze raises
LinesOfCodeZeroOnFailure(c) == IF "raw" \in c.faults THEN 0 ELSE c.loc

LinesOfCode(c) == IF "raw" \in c.faults THEN c.fallback_loc ELSE c.loc

\* The exception calculate_halstead_from_ast raises, "" when it returns: only
\* SyntaxError is caught, and only around ast.parse
HalsteadRaises(c) ==
    IF c.parse = "RecursionError" THEN "RecursionError"
    ELSE IF c.parse = "ok" /\ "halstead" \in c.faults THEN "ValueError"
    ELSE ""

\* calculate_halstead_from_ast when it returns
calculate_halstead_from_ast(c) ==
    IF c.parse = "SyntaxError" THEN EmptyDict ELSE c.halstead

\* lines 287-303: imports stay [] unless parse and visit both succeed
ExtractImports(c) ==
    IF c.parse = "ok" /\ "imports" \notin c.faults
    THEN ImportVisitor(<<>>, c.stmts)
    ELSE <<>>

\* The sum of a list of numbers
RECURSIVE SumSeq(_)
SumSeq(q) == IF q = <<>> THEN 0 ELSE Head(q) + SumSeq(Tail(q))

\* An increment that also charges 1 for a conditional expression.
CognitiveIncrement_WithIfExp(node, nesting) ==
    IF node.kind \in {"If", "While", "For", "AsyncFor"} THEN 1 + nesting
    ELSE IF node.kind \in {"Try", "ExceptHandler"} THEN 1 + nesting
    ELSE IF node.kind = "With" THEN 1 + nesting
    ELSE IF node.kind = "BoolOp" THEN Len(node.children) - 1
    ELSE IF node.kind = "comprehension" THEN 1 + nesting
    ELSE IF node.kind = "IfExp" THEN 1
    ELSE 0

\* lines 137-148 of visit_node: what a node adds at a nesting level
CognitiveIncrement(node, nesting) ==
    IF node.kind \in {"If", "While", "For", "AsyncFor"} THEN 1 + nesting
    ELSE IF node.kind \in {"Try", "ExceptHandler"} THEN 1 + nesting
    ELSE IF node.kind = "With" THEN 1 + nesting
    ELSE IF node.kind = "BoolOp" THEN Len(node.children) - 1
    ELSE IF node.kind = "comprehension" THEN 1 + nesting
    ELSE 0

\* lines 152-154 of visit_node: the nesting level of a node's children
ChildNesting(node, nesting) ==
    IF node.kind \in {"If", "While", "For", "AsyncFor", "Try", "With"}
    THEN nesting + 1
    ELSE nesting

\* lines 133-155: what the walk from node at this nesting adds to complexity
RECURSIVE visit_node(_, _)
visit_node(node, nesting) ==
    CognitiveIncrement(node, nesting)
    + SumSeq([i \in 1..Len(node.children) |->
                 visit_node(node.children[i], ChildNesting(node, nesting))])

\* lines 125-158
calculate_cognitive_complexity_from_ast(node) == visit_node(node, 0)

\* lines 314-318: name -> node over ast.walk(tree), the last definition of a
\* name wins
RECURSIVE function_nodes(_, _)
function_nodes(d, nodes) ==
    IF nodes = <<>> THEN d
    ELSE function_nodes(
             IF Head(nodes).kind \in {"FunctionDef", "AsyncFunctionDef"}
             THEN DictSet(d, Head(nodes).name, Head(nodes))
             ELSE d,
             Tail(nodes))

\* lines 324-327: the cognitive complexity reported for a block
CognitiveOfBlock(item, nodes) ==
    IF HasKey(nodes, item.name)
    THEN calculate_cognitive_complexity_from_ast(Lookup(nodes, item.name))
    ELSE 0

\* lines 320-335: one report per block
FunctionReport(item, nodes) ==
    [name |-> item.name,
     cyclomatic_complexity |-> item.complexity,
     cognitive_complexity |-> CognitiveOfBlock(item, nodes),
     line_number |-> item.lineno]

\* lines 305-342
AnalyzeComplexity(c) ==
    IF c.parse = "ok" /\ "complexity" \notin c.faults
    THEN LET nodes == function_nodes(<<>>, Walk(<<c.tree>>))
         IN  [i \in 1..Len(c.blocks) |-> FunctionReport(c.blocks[i], nodes)]
    ELSE <<>>

\* lines 352-359: the smell of a function definition
LongParameterList(node) ==
    LET param_count == node.nargs
    IN  IF param_count > 5
        THEN <<[type |-> "Long Parameter List",
                message |-> "Function \"" \o node.name \o "\" has "
                            \o ToString(param_count) \o " parameters (more than 5)",
                line_number |-> node.lineno]>>
        ELSE <<>>

\* lines 363-369: the smells of the comparators of a comparison
RECURSIVE MagicNumbers(_)
MagicNumbers(comparators) ==
    IF comparators = <<>> THEN <<>>
    ELSE LET comparator == Head(comparators)
         IN  (IF comparator.kind = "Constant" /\ IsInstanceInt(comparator.vtype)
              THEN <<[type |-> "Magic Number",
                      message |-> "Magic number " \o comparator.value
                                  \o " found in comparison",
                      line_number |-> comparator.lineno]>>
              ELSE <<>>)
             \o MagicNumbers(Tail(comparators))

\* lines 352-369: the smells one node of the walk appends
SmellsOfNode(node) ==
    IF node.kind = "FunctionDef" THEN LongParameterList(node)
    ELSE IF node.kind = "Compare" THEN MagicNumbers(Comparators(node))
    ELSE <<>>

\* lines 350-369: the smells of the nodes, in walk order
RECURSIVE SmellsOfNodes(_)
SmellsOfNodes(nodes) ==
    IF nodes = <<>> THEN <<>>
    ELSE SmellsOfNode(Head(nodes)) \o SmellsOfNodes(Tail(nodes))

\* lines 345-369: code_smells after the walk over a parsed tree
code_smells(tree) == SmellsOfNodes(Walk(<<tree>>))

\* A detector that treats a SyntaxError like any other exception.
DetectSmells_Silent(c) == IF c.parse = "ok" THEN code_smells(c.tree) ELSE <<>>

\* lines 344-379
DetectSmells(c) ==
    IF c.parse = "ok" THEN code_smells(c.tree)
    ELSE IF c.parse = "SyntaxError"
         THEN <<[type |-> "Syntax Error",
                 message |-> "Invalid Python syntax",
                 line_number |-> c.error_line]>>
         ELSE <<>>

\* The exception analyze_python_file lets through, "" when it returns
AnalyzeRaises(c) == IF c.readable THEN HalsteadRaises(c) ELSE ""

\* The dict analyze_python_file returns
analyze_python_file(file_path, c) ==
    IF ~c.readable
    THEN [file_path |-> file_path, lines_of_code |-> 0, functions |-> <<>>,
          code_smells |-> <<>>, halstead |-> EmptyDict, imports |-> <<>>,
          error |-> "Failed to read file"]
    ELSE [file_path |-> file_path,
          lines_of_code |-> LinesOfCode(c),
          functions |-> AnalyzeComplexity(c),
          code_smells |-> DetectSmells(c),
          halstead |-> calculate_halstead_from_ast(c),
          imports |-> ExtractImports(c)]

(***************************************************************************)
(* analyze_project: module names and import resolution                     *)
(***************************************************************************)

\* len('.__init__'), the slice of line 455
InitSuffixLen == 9

\* lines 452-455: relative path -> module name
ModuleName(relative_path) ==
    LET module_name == Replace(Replace(relative_path, sep, "."), ".py", "")
    IN  IF EndsWith(module_name, ".__init__")
        THEN SubSeq(module_name, 1, Len(module_name) - InitSuffixLen)
        ELSE module_name

\* line 488: {v: k for k, v in relative_to_module.items()}
RECURSIVE Reverse(_, _)
Reverse(d, items) ==
    IF items = <<>> THEN d
    ELSE Reverse(DictSet(d, Head(items)[2], Head(items)[1]), Tail(items))

module_to_relative(relative_to_module) == Reverse(<<>>, relative_to_module)

\* lines 514-518: up to level - 1 parents, stopping at the project root
RECURSIVE WalkUp(_, _)
WalkUp(current_dir, n) ==
    IF n <= 0 THEN current_dir
    ELSE LET parent == Dirname(current_dir)
         IN  IF parent = "" THEN parent ELSE WalkUp(parent, n - 1)

\* A bare-dot lookup that does not ask whether the file was analysed.
ResolveBareDot_Unchecked(source_dir, r2m) == PathJoin(source_dir, "__init__.py")

\* lines 503-507: the bare dot
ResolveBareDot(source_dir, r2m) ==
    LET init_file == PathJoin(source_dir, "__init__.py")
    IN  IF HasKey(r2m, init_file) THEN init_file ELSE ""

\* lines 509-535: a relative import other than the bare dot
ResolveRelative(imported_module, source_dir, m2r) ==
    LET level         == Len(imported_module) - Len(LStripDots(imported_module))
        module_part   == SubSeq(imported_module, level + 1, Len(imported_module))
        current_dir   == WalkUp(source_dir, level - 1)
        target_module ==
            IF module_part # ""
            THEN IF current_dir # ""
                 THEN Replace(current_dir, sep, ".") \o "." \o module_part
                 ELSE module_part
            ELSE Replace(current_dir, sep, ".")
        init_module   == target_module \o ".__init__"
    IN  IF HasKey(m2r, target_module) THEN Lookup(m2r, target_module)
        ELSE IF HasKey(m2r, init_module) THEN Lookup(m2r, init_module)
        ELSE ""

\* lines 542-545: the first module, in dict order, that is a prefix of the
\* import or that the import is a prefix of
PrefixMatch(imported_module, m2r) ==
    LET hits == {i \in 1..Len(m2r) :
                    \/ StartsWith(imported_module, m2r[i][1])
                    \/ StartsWith(m2r[i][1], imported_module)}
    IN  IF hits = {} THEN ""
        ELSE m2r[CHOOSE i \in hits : \A j \in hits : i <= j][2]

\* lines 537-545: an absolute import
ResolveAbsolute(imported_module, m2r) ==
    IF HasKey(m2r, imported_module) THEN Lookup(m2r, imported_module)
    ELSE PrefixMatch(imported_module, m2r)

\* lines 498-545: target_file of one import, "" for None
ResolveImport(imported_module, source_file, r2m) ==
    LET source_dir == Dirname(source_file)
        m2r        == module_to_relative(r2m)
    IN  IF StartsWith(imported_module, ".")
        THEN IF imported_module = "."
             THEN ResolveBareDot(source_dir, r2m)
             ELSE ResolveRelative(imported_module, source_dir, m2r)
        ELSE ResolveAbsolute(imported_module, m2r)

\* edge in analysis_results['graph']['edges']
HasEdge(edges, edge) == \E i \in 1..Len(edges) : edges[i] = edge

\* An edge list that appends without looking.
AddEdge_NoDedup(edges, source_file, target_file) ==
    IF target_file # "" /\ target_file # source_file
    THEN Append(edges, [source |-> source_file, target |-> target_file])
    ELSE edges

\* lines 547-555
AddEdge(edges, source_file, target_file) ==
    IF target_file # "" /\ target_file # source_file
    THEN LET edge == [source |-> source_file, target |-> target_file]
         IN  IF HasEdge(edges, edge) THEN edges ELSE Append(edges, edge)
    ELSE edges

\* lines 497-555: the imports of one file, in order
RECURSIVE ResolveImports(_, _, _, _)
ResolveImports(edges, imports, source_file, r2m) ==
    IF imports = <<>> THEN edges
    ELSE ResolveImports(
             AddEdge(edges, source_file, ResolveImport(Head(imports), source_file, r2m)),
             Tail(imports), source_file, r2m)

(***************************************************************************)
(* analyze_project: aggregation                                            *)
(***************************************************************************)

\* sum of a field over a list of function reports
RECURSIVE SumField(_, _)
SumField(funcs, field) ==
    IF funcs = <<>> THEN 0 ELSE Head(funcs)[field] + SumField(Tail(funcs), field)

\* halstead.get(key, 0)
HalsteadGet(halstead, key) == IF key \in DOMAIN halstead THEN halstead[key] ELSE 0

\* An aggregation that adds the cognitive values to both complexity totals.
Aggregate_CognitiveTwice(ar, fa) ==
    IF "error" \in DOMAIN fa THEN ar
    ELSE [ar EXCEPT
        !.total_lines_of_code = @ + fa.lines_of_code,
        !.total_functions = @ + Len(fa.functions),
        !.total_code_smells = @ + Len(fa.code_smells),
        !.total_cyclomatic_complexity = @ + SumField(fa.functions, "cognitive_complexity"),
        !.total_cognitive_complexity = @ + SumField(fa.functions, "cognitive_complexity"),
        !.total_halstead_volume = @ + HalsteadGet(fa.halstead, "volume"),
        !.total_halstead_difficulty = @ + HalsteadGet(fa.halstead, "difficulty"),
        !.total_halstead_effort = @ + HalsteadGet(fa.halstead, "effort")]

\* lines 470-485: the totals after one file
Aggregate(ar, fa) ==
    IF "error" \in DOMAIN fa THEN ar
    ELSE [ar EXCEPT
        !.total_lines_of_code = @ + fa.lines_of_code,
        !.total_functions = @ + Len(fa.functions),
        !.total_code_smells = @ + Len(fa.code_smells),
        !.total_cyclomatic_complexity = @ + SumField(fa.functions, "cyclomatic_complexity"),
        !.total_cognitive_complexity = @ + SumField(fa.functions, "cognitive_complexity"),
        !.total_halstead_volume =
            IF fa.halstead # EmptyDict THEN @ + HalsteadGet(fa.halstead, "volume") ELSE @,
        !.total_halstead_difficulty =
            IF fa.halstead # EmptyDict THEN @ + HalsteadGet(fa.halstead, "difficulty") ELSE @,
        !.total_halstead_effort =
            IF fa.halstead # EmptyDict THEN @ + HalsteadGet(fa.halstead, "effort") ELSE @]

\* A rounding that cuts the digits after the second decimal.
Round2_Truncating(n, d) == {n \div d}

\* round(x, 2), in hundredths, of the float x = n / d hundredths, n >= 0 and
\* d > 0: the set of values it can take. It is the hundredth nearest to x;
\* when n / d lies halfway between two hundredths the binary float x lies a
\* little above or below it (or on it, and then the even neighbour is taken),
\* so either neighbour can come out.
Round2(n, d) ==
    LET q == n \div d
        r == n % d
    IN  IF 2 * r < d THEN {q}
        ELSE IF 2 * r > d THEN {q + 1}
        ELSE {q, q + 1}

\* lines 558-565: the averages per function
FunctionAverages(ar) ==
    IF ar.total_functions > 0
    THEN {[ar EXCEPT !.average_cyclomatic_complexity = cyc,
                     !.average_cognitive_complexity = cog] :
            cyc \in Round2(100 * ar.total_cyclomatic_complexity, ar.total_functions),
            cog \in Round2(100 * ar.total_cognitive_complexity, ar.total_functions)}
    ELSE {ar}

\* lines 567-576: the averages per file
HalsteadAverages(ar) ==
    IF ar.files_analyzed > 0
    THEN {[ar EXCEPT !.average_halstead_volume = v[1],
                     !.average_halstead_difficulty = v[2],
                     !.average_halstead_effort = v[3]] :
            v \in Round2(ar.total_halstead_volume, ar.files_analyzed)
                  \X Round2(ar.total_halstead_difficulty, ar.files_analyzed)
                  \X Round2(ar.total_halstead_effort, ar.files_analyzed)}
    ELSE {ar}

\* lines 558-576: the reports analyze_project can return for these totals
Averages(ar) == UNION {HalsteadAverages(a) : a \in FunctionAverages(ar)}

(***************************************************************************)
(* Inputs: project trees and file contents                                 *)
(***************************************************************************)

\* The most files a project tree holds
MaxFiles == 3

\* The most import statements the files of a project hold together
MaxImports == 2

\* The most steps that fail on one file
MaxFaults == 1

\* The argument of analyze_project
project_path == "/project"

\* Files a tree may hold, each the list of names from the root to the file
Paths ==
    { <<"a.py">>, <<"b.py">>, <<"__init__.py">>,
      <<"p", "__init__.py">>, <<"p", "a.py">>, <<"p", "b.py">> }

Trees == {t \in SUBSET Paths : Cardinality(t) <= MaxFiles}

\* Files of the trees used to exercise the metrics
MetricPaths ==
    { <<"a.py">>, <<"b.py">>, <<"p", "a.py">>, <<"venv", "b.py">>, <<"notes.txt">> }

MetricTrees == {t \in SUBSET MetricPaths : Cardinality(t) <= MaxFiles}

\* import <names[1]>, <names[2]>, ...
Imp(names) == [kind |-> "Import", names |-> names, module |-> "", level |-> 0]

\* from <level dots><module> import x
From(module, level) ==
    [kind |-> "ImportFrom", names |-> <<>>, module |-> module, level |-> level]

ImportStmts ==
    { Imp(<<"a">>), Imp(<<"b">>), Imp(<<"a", "b", "b">>), Imp(<<"p.b">>),
      From("b", 1), From("", 1) }

\* Lists of at most n elements of S
RECURSIVE SeqsUpTo(_, _)
SeqsUpTo(S, n) ==
    IF n = 0 THEN {<<>>}
    ELSE LET shorter == SeqsUpTo(S, n - 1)
         IN  shorter \cup {Append(q, x) : q \in shorter, x \in S}

\* The text of an empty module
EmptyModule ==
    [readable |-> TRUE, parse |-> "ok", loc |-> 0, fallback_loc |-> 0,
     error_line |-> 0,
     halstead |-> [volume |-> 0, difficulty |-> 0, effort |-> 0],
     stmts |-> <<>>, blocks |-> <<>>, tree |-> Module(<<>>),
     faults |-> {}]

\* A file that cannot be opened or decoded
Unreadable == [EmptyModule EXCEPT !.readable = FALSE]

\* A comment line, then def foo(:
Broken == [EmptyModule EXCEPT !.parse = "SyntaxError", !.loc = 2,
                              !.fallback_loc = 1, !.error_line = 2]

\* A text ast.parse rejects with an exception that is no SyntaxError
Unparsable == [EmptyModule EXCEPT !.parse = "RecursionError", !.loc = 1,
                                  !.fallback_loc = 1]

\* test_project/test_app.py lines 22-25, the definition starting at line l
check_status(l) ==
    FunctionDef("check_status", l, 1,
        <<If(l + 1,
             Compare(l + 1, Name(l + 1, "status_code"),
                     <<Constant(l + 1, "int", "2")>>),
             <<Return(l + 2, Constant(l + 2, "str", "Active"))>>,
             <<>>),
          Return(l + 3, Constant(l + 3, "str", "Inactive"))>>)

\* test_project/test_app.py lines 5-14, the definition starting at line l
complex_function(l) ==
    FunctionDef("complex_function", l, 3,
        <<Expr(l + 1, Constant(l + 1, "str", "A function with multiple paths")),
          If(l + 4,
             Compare(l + 4, Name(l + 4, "a"), <<Constant(l + 4, "int", "10")>>),
             <<Return(l + 5,
                      IfExp(l + 5,
                            Compare(l + 5, Name(l + 5, "b"),
                                    <<Constant(l + 5, "int", "5")>>),
                            Constant(l + 5, "str", "A"),
                            Constant(l + 5, "str", "B")))>>,
             <<If(l + 6,
                  BoolOp(l + 6,
                         <<Compare(l + 6, Name(l + 6, "a"),
                                   <<Constant(l + 6, "int", "5")>>),
                           Compare(l + 6, Name(l + 6, "c"),
                                   <<Constant(l + 6, "int", "3")>>)>>),
                  <<Return(l + 7, Constant(l + 7, "str", "C"))>>,
                  <<Return(l + 9, Constant(l + 9, "str", "D"))>>)>>)>>)

\* test_project/test_app.py lines 18-19, the definition starting at line l
function_with_many_params(l) ==
    FunctionDef("function_with_many_params", l, 6,
        <<Return(l + 1,
                 BinOp(l + 1,
                   BinOp(l + 1,
                     BinOp(l + 1,
                       BinOp(l + 1,
                         BinOp(l + 1, Name(l + 1, "a"), Name(l + 1, "b")),
                         Name(l + 1, "c")),
                       Name(l + 1, "d")),
                     Name(l + 1, "e")),
                   Name(l + 1, "f")))>>)

\* test_project/test_app.py, check_status alone: 4 lines, one function with
\* one if and one comparison with the literal 2
CheckStatus ==
    [EmptyModule EXCEPT
        !.loc = 4, !.fallback_loc = 4,
        !.halstead = [volume |-> 2700, difficulty |-> 200, effort |-> 5400],
        !.blocks = <<[name |-> "check_status", complexity |-> 2, lineno |-> 1]>>,
        !.tree = Module(<<check_status(1)>>)]

\* test_project/test_app.py, complex_function and function_with_many_params
\* with the lines between them: 15 lines, 12 of them neither blank nor comment
TwoFunctions ==
    [EmptyModule EXCEPT
        !.loc = 15, !.fallback_loc = 12,
        !.halstead = [volume |-> 16500, difficulty |-> 543, effort |-> 89571],
        !.blocks = <<[name |-> "complex_function", complexity |-> 5, lineno |-> 1],
                     [name |-> "function_with_many_params", complexity |-> 1,
                      lineno |-> 14]>>,
        !.tree = Module(<<complex_function(1), function_with_many_params(14)>>)]

\* test_project/test_app.py lines 30-40, the definition starting at line l
process_data(l) ==
    FunctionDef("process_data", l, 2,
        <<If(l + 1,
             Compare(l + 1, Name(l + 1, "user_type"),
                     <<Constant(l + 1, "str", "admin")>>),
             <<For(l + 2, Name(l + 2, "item"), Name(l + 2, "data"),
                   <<If(l + 3,
                        Compare(l + 3,
                                Subscript(l + 3, Name(l + 3, "item"),
                                          Constant(l + 3, "str", "value")),
                                <<Constant(l + 3, "int", "100")>>),
                        <<Return(l + 4, Constant(l + 4, "str", "High value item found"))>>,
                        <<>>)>>)>>,
             <<Try(l + 6,
                   <<Assign(l + 7, Name(l + 7, "result"),
                            BinOp(l + 7, Constant(l + 7, "int", "100"),
                                  Call(l + 7, Name(l + 7, "len"),
                                       <<Name(l + 7, "data")>>))),
                     Return(l + 8, Name(l + 8, "result"))>>,
                   <<ExceptHandler(l + 9, Name(l + 9, "ZeroDivisionError"),
                                   <<Return(l + 10, Constant(l + 10, "str", "No data"))>>)>>)>>)>>)

\* test_project/test_app.py, process_data alone
ProcessData ==
    [EmptyModule EXCEPT
        !.loc = 11, !.fallback_loc = 11,
        !.halstead = [volume |-> 10425, difficulty |-> 477, effort |-> 49755],
        !.blocks = <<[name |-> "process_data", complexity |-> 5, lineno |-> 1]>>,
        !.tree = Module(<<process_data(1)>>)]

\* def f(a,b,c): return 1 if a>10 else (2 if b>5 else 3)
Ternary ==
    [EmptyModule EXCEPT
        !.loc = 1, !.fallback_loc = 1,
        !.halstead = [volume |-> 3654, difficulty |-> 150, effort |-> 5481],
        !.blocks = <<[name |-> "f", complexity |-> 3, lineno |-> 1]>>,
        !.tree = Module(<<
            FunctionDef("f", 1, 3,
                <<Return(1,
                    IfExp(1,
                          Compare(1, Name(1, "a"), <<Constant(1, "int", "10")>>),
                          Constant(1, "int", "1"),
                          IfExp(1,
                                Compare(1, Name(1, "b"), <<Constant(1, "int", "5")>>),
                                Constant(1, "int", "2"),
                                Constant(1, "int", "3"))))>>)>>)]

\* def f(x, y):
\*     a = 2 == x
\*     b = x == 1.5
\*     c = x == 's'
\*     d = x == None
\*     e = x == y
\*     g = x > -1
\*     return 0 < x < 9
Comparisons ==
    [EmptyModule EXCEPT
        !.loc = 8, !.fallback_loc = 8,
        !.halstead = [volume |-> 14055, difficulty |-> 420, effort |-> 59033],
        !.blocks = <<[name |-> "f", complexity |-> 1, lineno |-> 1]>>,
        !.tree = Module(<<
            FunctionDef("f", 1, 2,
                <<Assign(2, Name(2, "a"),
                         Compare(2, Constant(2, "int", "2"), <<Name(2, "x")>>)),
                  Assign(3, Name(3, "b"),
                         Compare(3, Name(3, "x"), <<Constant(3, "float", "1.5")>>)),
                  Assign(4, Name(4, "c"),
                         Compare(4, Name(4, "x"), <<Constant(4, "str", "s")>>)),
                  Assign(5, Name(5, "d"),
                         Compare(5, Name(5, "x"), <<Constant(5, "NoneType", "None")>>)),
                  Assign(6, Name(6, "e"),
                         Compare(6, Name(6, "x"), <<Name(6, "y")>>)),
                  Assign(7, Name(7, "g"),
                         Compare(7, Name(7, "x"),
                                 <<UnaryOp(7, Constant(7, "int", "1"))>>)),
                  Return(8,
                         Compare(8, Constant(8, "int", "0"),
                                 <<Name(8, "x"), Constant(8, "int", "9")>>))>>)>>)]

\* def f(x):
\*     return x == True
BoolCompare ==
    [EmptyModule EXCEPT
        !.loc = 2, !.fallback_loc = 2,
        !.halstead = [volume |-> 1161, difficulty |-> 150, effort |-> 1741],
        !.blocks = <<[name |-> "f", complexity |-> 1, lineno |-> 1]>>,
        !.tree = Module(<<
            FunctionDef("f", 1, 1,
                <<Return(2, Compare(2, Name(2, "x"),
                                    <<Constant(2, "bool", "True")>>))>>)>>)]

\* def outer(a, b, c):
\*     def inner(a, b, c, d, e, f):
\*         return a
\*     return inner
Nested6 ==
    [EmptyModule EXCEPT
        !.loc = 4, !.fallback_loc = 4,
        !.halstead = [volume |-> 1200, difficulty |-> 100, effort |-> 1200],
        !.blocks = <<[name |-> "outer", complexity |-> 1, lineno |-> 1]>>,
        !.tree = Module(<<
            FunctionDef("outer", 1, 3,
                <<FunctionDef("inner", 2, 6, <<Return(3, Name(3, "a"))>>),
                  Return(4, Name(4, "inner"))>>)>>)]

\* async def g(a, b, c, d, e, f):
\*     return a
Async6 ==
    [EmptyModule EXCEPT
        !.loc = 2, !.fallback_loc = 2,
        !.halstead = [volume |-> 475, difficulty |-> 100, effort |-> 475],
        !.blocks = <<[name |-> "g", complexity |-> 1, lineno |-> 1]>>,
        !.tree = Module(<<AsyncFunctionDef("g", 1, 6, <<Return(2, Name(2, "a"))>>)>>)]

\* def g(a, b, c, d, e, f, /):
\*     return a
PosOnly6 ==
    [EmptyModule EXCEPT
        !.loc = 2, !.fallback_loc = 2,
        !.halstead = [volume |-> 475, difficulty |-> 100, effort |-> 475],
        !.blocks = <<[name |-> "g", complexity |-> 1, lineno |-> 1]>>,
        !.tree = Module(<<PosOnlyFunctionDef("g", 1, 6, <<Return(2, Name(2, "a"))>>)>>)]

\* def f(x):
\*     try:
\*         g()
\*     except E:
\*         if x:
\*             h()
Handler ==
    [EmptyModule EXCEPT
        !.loc = 6, !.fallback_loc = 6,
        !.halstead = [volume |-> 1551, difficulty |-> 100, effort |-> 1551],
        !.blocks = <<[name |-> "f", complexity |-> 3, lineno |-> 1]>>,
        !.tree = Module(<<
            FunctionDef("f", 1, 1,
                <<Try(2,
                      <<Expr(3, Call(3, Name(3, "g"), <<>>))>>,
                      <<ExceptHandler(4, Name(4, "E"),
                            <<If(5, Name(5, "x"),
                                 <<Expr(6, Call(6, Name(6, "h"), <<>>))>>,
                                 <<>>)>>)>>)>>)>>)]

\* class A:
\*     def run(self, x):
\*         if x:
\*             return 1
\* class B:
\*     def run(self, x):
\*         return 2
SameName ==
    [EmptyModule EXCEPT
        !.loc = 7, !.fallback_loc = 7,
        !.halstead = [volume |-> 2807, difficulty |-> 200, effort |-> 5615],
        !.blocks = <<[name |-> "A", complexity |-> 3, lineno |-> 1],
                     [name |-> "run", complexity |-> 2, lineno |-> 2],
                     [name |-> "B", complexity |-> 2, lineno |-> 5],
                     [name |-> "run", complexity |-> 1, lineno |-> 6]>>,
        !.tree = Module(<<
            ClassDef("A", 1,
                <<FunctionDef("run", 2, 2,
                      <<If(3, Name(3, "x"),
                           <<Return(4, Constant(4, "int", "1"))>>, <<>>)>>)>>),
            ClassDef("B", 5,
                <<FunctionDef("run", 6, 2,
                      <<Return(7, Constant(7, "int", "2"))>>)>>)>>)]

\* def helper(x):
\*     if x:
\*         return 1
\* def outer():
\*     def helper():
\*         return 0
\*     return helper
Shadow ==
    [EmptyModule EXCEPT
        !.loc = 7, !.fallback_loc = 7,
        !.halstead = [volume |-> 3088, difficulty |-> 150, effort |-> 4632],
        !.blocks = <<[name |-> "helper", complexity |-> 2, lineno |-> 1],
                     [name |-> "outer", complexity |-> 1, lineno |-> 4]>>,
        !.tree = Module(<<
            FunctionDef("helper", 1, 1,
                <<If(2, Name(2, "x"),
                     <<Return(3, Constant(3, "int", "1"))>>, <<>>)>>),
            FunctionDef("outer", 4, 0,
                <<FunctionDef("helper", 5, 0,
                      <<Return(6, Constant(6, "int", "0"))>>),
                  Return(7, Name(7, "helper"))>>)>>)]

\* class K:
\*     pass
\* def make():
\*     def K(x):
\*         if x:
\*             return 1
\*     return K
ClassNamed ==
    [EmptyModule EXCEPT
        !.loc = 7, !.fallback_loc = 7,
        !.halstead = [volume |-> 2527, difficulty |-> 200, effort |-> 5053],
        !.blocks = <<[name |-> "make", complexity |-> 1, lineno |-> 3],
                     [name |-> "K", complexity |-> 1, lineno |-> 1]>>,
        !.tree = Module(<<
            ClassDef("K", 1, <<Pass(2)>>),
            FunctionDef("make", 3, 0,
                <<FunctionDef("K", 4, 1,
                      <<If(5, Name(5, "x"),
                           <<Return(6, Constant(6, "int", "1"))>>, <<>>)>>),
                  Return(7, Name(7, "K"))>>)>>)]

\* Contents that differ in their syntax tree
AstContents ==
    { CheckStatus, TwoFunctions, ProcessData, Ternary, Comparisons, BoolCompare,
      Nested6, Async6, PosOnly6, Handler, SameName, Shadow, ClassNamed }

Faults == {"raw", "halstead", "imports", "complexity"}

\* Contents that differ in what they import
GraphContents ==
    {[EmptyModule EXCEPT !.loc = Len(l), !.fallback_loc = Len(l), !.stmts = l] :
          l \in SeqsUpTo(ImportStmts, MaxImports)}

\* Contents that differ in their metrics and in the steps that fail
MetricContents ==
    {Unreadable, Unparsable}
    \cup {[c EXCEPT !.faults = F] :
            c \in {Broken}, F \in {{}, {"raw"}}}
    \cup {[c EXCEPT !.faults = F] :
            c \in {EmptyModule, CheckStatus, TwoFunctions},
            F \in {G \in SUBSET Faults : Cardinality(G) <= MaxFaults}}

\* Files of the trees used to exercise module names: a module next to a
\* package of the same name, a package in a package, and a file whose name
\* holds the extension twice
NamePaths ==
    { <<"a.py">>, <<"a.py.py">>, <<"__init__.py">>, <<"p.py">>,
      <<"p", "__init__.py">>, <<"p", "b.py">>, <<"p", "q", "a.py">> }

NameTrees == {t \in SUBSET NamePaths : Cardinality(t) <= MaxFiles}

NameStmts ==
    { Imp(<<"a">>), Imp(<<"p">>), Imp(<<"p.b">>), From("", 1), From("", 2) }

\* Contents that differ in what they import, for the module-name trees
NameContents ==
    {[EmptyModule EXCEPT !.loc = Len(l), !.fallback_loc = Len(l), !.stmts = l] :
          l \in SeqsUpTo(NameStmts, MaxImports)}

\* Files of the trees used to exercise the walk: directories the walk skips,
\* at the root and below it, and a directory whose name only starts like one
WalkPaths ==
    { <<"a.py">>, <<"notes.txt">>, <<"p", "b.py">>, <<"venvs", "a.py">>,
      <<"venv", "b.py">>, <<"env", "p", "a.py">>, <<".git", "a.py">>,
      <<"p", "node_modules", "a.py">>, <<"p", "q", "__pycache__", "a.py">> }

WalkTrees == {t \in SUBSET WalkPaths : Cardinality(t) <= MaxFiles}

\* The one content of the files of the walk trees
WalkContents == {EmptyModule}

(***************************************************************************)
(* analyze_project as a state machine                                      *)
(***************************************************************************)

VARIABLES
    pc,                 \* "start", "walk", "done" or "raised"
    exc,                \* the exception raised to the caller, "" if none
    project,            \* what project_path is: "dir", "file" or "missing"
    tree,               \* the files below project_path
    source,             \* <<relative path, content>> of every file opened so far
    stack,              \* os.walk: the directories still to be yielded
    listing,            \* os.walk: the files of the current directory still to come
    cwd,                \* os.walk: the current directory (root)
    relative_to_module, \* dict relative path -> module name
    analysis_results    \* the report being built

vars == <<pc, exc, project, tree, source, stack, listing, cwd,
          relative_to_module, analysis_results>>

\* lines 411-433
InitialResults ==
    [files_analyzed |-> 0,
     total_lines_of_code |-> 0,
     total_functions |-> 0,
     total_code_smells |-> 0,
     total_cyclomatic_complexity |-> 0,
     total_cognitive_complexity |-> 0,
     average_cyclomatic_complexity |-> 0,
     average_cognitive_complexity |-> 0,
     total_halstead_volume |-> 0,
     total_halstead_difficulty |-> 0,
     total_halstead_effort |-> 0,
     average_halstead_volume |-> 0,
     average_halstead_difficulty |-> 0,
     average_halstead_effort |-> 0,
     files |-> <<>>,
     graph |-> [nodes |-> <<>>, edges |-> <<>>]]

InitWith(trees) ==
    /\ pc = "start"
    /\ exc = ""
    /\ \/ project = "dir" /\ tree \in trees
       \/ project \in {"file", "missing"} /\ tree = {}
    /\ source = <<>>
    /\ stack = <<>>
    /\ listing = {}
    /\ cwd = <<>>
    /\ relative_to_module = <<>>
    /\ analysis_results = InitialResults

Init == InitWith(Trees)

InitMetrics == InitWith(MetricTrees)

InitNames == InitWith(NameTrees)

InitWalk == InitWith(WalkTrees)

\* lines 402-433
Start ==
    /\ pc = "start"
    /\ IF project = "missing"
       THEN pc' = "raised" /\ exc' = "FileNotFoundError" /\ stack' = stack
       ELSE IF project = "file"
       THEN pc' = "raised" /\ exc' = "NotADirectoryError" /\ stack' = stack
       ELSE pc' = "walk" /\ exc' = exc /\ stack' = << <<>> >>
    /\ UNCHANGED <<project, tree, source, listing, cwd, relative_to_module,
                   analysis_results>>

\* names of the files directly in directory dir
FilesIn(dir) ==
    {p[Len(p)] : p \in {r \in tree : Len(r) = Len(dir) + 1
                                     /\ SubSeq(r, 1, Len(dir)) = dir}}

\* names of the directories directly in directory dir
DirsIn(dir) ==
    {p[Len(dir) + 1] : p \in {r \in tree : Len(r) > Len(dir) + 1
                                           /\ SubSeq(r, 1, Len(dir)) = dir}}

\* A filter that forgets the directories whose name starts with a dot.
KeepsDir_NamedOnly(d) == d \notin {"__pycache__", "node_modules", "venv", "env"}

\* line 442: the directories the walk descends into
KeepsDir(d) ==
    /\ ~StartsWith(d, ".")
    /\ d \notin {"__pycache__", "node_modules", "venv", "env"}

\* The orders in which a directory listing may come
Orders(S) ==
    {o \in [1..Cardinality(S) -> S] : \A i, j \in 1..Cardinality(S) : o[i] = o[j] => i = j}

\* line 440-442: os.walk yields the next directory; its kept sub-directories
\* are walked, in listing order, before the directories already waiting
EnterDir ==
    /\ pc = "walk"
    /\ listing = {}
    /\ stack # <<>>
    /\ LET root == Head(stack)
       IN  /\ \E dirs \in Orders({d \in DirsIn(root) : KeepsDir(d)}) :
                stack' = [i \in 1..Len(dirs) |-> Append(root, dirs[i])] \o Tail(stack)
           /\ listing' = FilesIn(root)
           /\ cwd' = root
    /\ UNCHANGED <<pc, exc, project, tree, source, relative_to_module,
                   analysis_results>>

\* import statements of the files opened so far
RECURSIVE ImportCount(_)
ImportCount(src) ==
    IF src = <<>> THEN 0 ELSE Len(Head(src)[2].stmts) + ImportCount(Tail(src))

\* file_analysis['relative_path'] = relative_path
WithRelativePath(fa, relative_path) ==
    [k \in DOMAIN fa \cup {"relative_path"} |->
        IF k = "relative_path" THEN relative_path ELSE fa[k]]

\* lines 461-468 then 470-485
Record(ar, fa, relative_path) ==
    Aggregate(
        [ar EXCEPT
            !.files = Append(@, fa),
            !.files_analyzed = @ + 1,
            !.graph.nodes = Append(@, [id |-> relative_path, label |-> relative_path])],
        fa)

\* lines 444-485: one file of the current directory
VisitFile(contents) ==
    /\ pc = "walk"
    /\ listing # {}
    /\ \E file \in listing :
        /\ listing' = listing \ {file}
        /\ IF EndsWith(file, ".py")
           THEN \E c \in contents :
                LET relative_path == RelPath(Append(cwd, file))
                    file_path     == PathJoin(project_path, relative_path)
                IN  /\ ImportCount(source) + Len(c.stmts) <= MaxImports
                    /\ source' = Append(source, <<relative_path, c>>)
                    /\ relative_to_module' =
                           DictSet(relative_to_module, relative_path,
                                   ModuleName(relative_path))
                    /\ IF AnalyzeRaises(c) # ""
                       THEN /\ pc' = "raised"
                            /\ exc' = AnalyzeRaises(c)
                            /\ analysis_results' = analysis_results
                       ELSE /\ pc' = pc
                            /\ exc' = exc
                            /\ analysis_results' =
                                   Record(analysis_results,
                                          WithRelativePath(
                                              analyze_python_file(file_path, c),
                                              relative_path),
                                          relative_path)
           ELSE UNCHANGED <<pc, exc, source, relative_to_module, analysis_results>>
    /\ UNCHANGED <<project, tree, stack, cwd>>

\* lines 490-556: the second pass over the files of the report, in order
RECURSIVE SecondPass(_, _, _)
SecondPass(edges, files, r2m) ==
    IF files = <<>> THEN edges
    ELSE SecondPass(
             IF "error" \in DOMAIN Head(files) THEN edges
             ELSE ResolveImports(edges, Head(files).imports,
                                 Head(files).relative_path, r2m),
             Tail(files), r2m)

\* lines 487-580: the walk is over; edges, averages, return
Finish ==
    /\ pc = "walk"
    /\ listing = {}
    /\ stack = <<>>
    /\ analysis_results' \in
           Averages([analysis_results EXCEPT
                        !.graph.edges =
                            SecondPass(@, analysis_results.files, relative_to_module)])
    /\ pc' = "done"
    /\ UNCHANGED <<exc, project, tree, source, stack, listing, cwd,
                   relative_to_module>>

Next ==
    \/ Start
    \/ EnterDir
    \/ VisitFile(GraphContents)
    \/ Finish

NextMetrics ==
    \/ Start
    \/ EnterDir
    \/ VisitFile(MetricContents)
    \/ Finish

NextNames ==
    \/ Start
    \/ EnterDir
    \/ VisitFile(NameContents)
    \/ Finish

NextAst ==
    \/ Start
    \/ EnterDir
    \/ VisitFile(AstContents)
    \/ Finish

NextWalk ==
    \/ Start
    \/ EnterDir
    \/ VisitFile(WalkContents)
    \/ Finish

Spec == Init /\ [][Next]_vars

SpecMetrics == InitMetrics /\ [][NextMetrics]_vars

SpecNames == InitNames /\ [][NextNames]_vars

SpecWalk == InitWalk /\ [][NextWalk]_vars

SpecAst == InitMetrics /\ [][NextAst]_vars

TypeOK == pc \in {"start", "walk", "done", "raised"}

(***************************************************************************)
(* Properties                                                              *)
(***************************************************************************)

Files == analysis_results.files

Edges == analysis_results.graph.edges

NodeIds == {analysis_results.graph.nodes[i].id :
                i \in 1..Len(analysis_results.graph.nodes)}

\* The content read for the i-th file of the report
ContentOf(i) == source[i][2]

\* C1: graph closure. Every edge of the report has its source and its target
\* among the ids of graph.nodes.
C1_GraphClosure ==
    \A i \in 1..Len(Edges) : Edges[i].source \in NodeIds /\ Edges[i].target \in NodeIds

\* A returned report with an edge to a package's __init__.py found by a
\* bare-dot import
C1_Witness ==
    /\ pc = "done"
    /\ \E i \in 1..Len(Files) :
        /\ \E k \in 1..Len(Files[i].imports) : Files[i].imports[k] = "."
        /\ HasEdge(Edges, [source |-> Files[i].relative_path,
                           target |-> PathJoin(Dirname(Files[i].relative_path),
                                               "__init__.py")])

\* C2: graph.edges holds no (source, target) pair twice and no edge from a
\* file to itself, whatever the files import.
C2_EdgesUniqueNoSelfLoop ==
    /\ \A i, j \in 1..Len(Edges) : Edges[i] = Edges[j] => i = j
    /\ \A i \in 1..Len(Edges) : Edges[i].source # Edges[i].target

\* A returned report for a file that imports itself and imports another file
\* twice, the report holding that one edge
C2_Witness ==
    /\ pc = "done"
    /\ \E i \in 1..Len(Files) :
        LET imports == Files[i].imports
            me      == Files[i].relative_path
        IN  /\ Len(imports) >= 3
            /\ \E j, k, l \in 1..Len(imports) :
                /\ j < k
                /\ ResolveImport(imports[j], me, relative_to_module)
                     = ResolveImport(imports[k], me, relative_to_module)
                /\ ResolveImport(imports[j], me, relative_to_module) \notin {"", me}
                /\ ResolveImport(imports[l], me, relative_to_module) = me
            /\ Len(Edges) = 1

\* The sum of f[x] over the x of S
RECURSIVE SumSet(_, _)
SumSet(f, S) ==
    IF S = {} THEN 0
    ELSE LET x == CHOOSE y \in S : TRUE IN f[x] + SumSet(f, S \ {x})

\* The files of the report that carry no error
NoError == {i \in 1..Len(Files) : "error" \notin DOMAIN Files[i]}

\* The files of the report that carry an error
Errored == {i \in 1..Len(Files) : "error" \in DOMAIN Files[i]}

\* The files whose text was read and parsed
Healthy == {i \in 1..Len(Files) : ContentOf(i).readable /\ ContentOf(i).parse = "ok"}

\* The files whose text was read and does not parse
SyntaxFailed ==
    {i \in 1..Len(Files) : ContentOf(i).readable /\ ContentOf(i).parse = "SyntaxError"}

\* The sum of a field over the function reports of file i
FunctionSum(i, field) ==
    SumSet([k \in 1..Len(Files[i].functions) |-> Files[i].functions[k][field]],
           1..Len(Files[i].functions))

\* The sum over the files S of the per-file value f
FileSum(f(_), S) == SumSet([i \in 1..Len(Files) |-> f(i)], S)

FunctionCount(i) == Len(Files[i].functions)

CyclomaticOf(i) == FunctionSum(i, "cyclomatic_complexity")

CognitiveOf(i) == FunctionSum(i, "cognitive_complexity")

LocOf(i) == Files[i].lines_of_code

SmellCount(i) == Len(Files[i].code_smells)

VolumeOf(i) == HalsteadGet(Files[i].halstead, "volume")

DifficultyOf(i) == HalsteadGet(Files[i].halstead, "difficulty")

EffortOf(i) == HalsteadGet(Files[i].halstead, "effort")

\* C3: aggregation identity. In the returned report total_functions is the
\* number of function reports, total_cyclomatic the sum of their cyclomatic
\* values and total_cognitive the sum of their cognitive values, each over
\* exactly the files that carry no error.
C3_AggregationIdentity ==
    pc = "done" =>
        /\ analysis_results.total_functions = FileSum(FunctionCount, NoError)
        /\ analysis_results.total_cyclomatic_complexity = FileSum(CyclomaticOf, NoError)
        /\ analysis_results.total_cognitive_complexity = FileSum(CognitiveOf, NoError)

\* A returned report with an errored file and function reports from two files
C3_Witness ==
    /\ pc = "done"
    /\ Errored # {}
    /\ Cardinality({i \in NoError : Len(Files[i].functions) > 0}) >= 2
    /\ analysis_results.total_cyclomatic_complexity
         # analysis_results.total_cognitive_complexity

\* Every file that was opened is a file of the report and a node of the graph
AllListed ==
    /\ Len(source) = Len(Files)
    /\ \A i \in 1..Len(Files) :
         Files[i].relative_path = source[i][1] /\ source[i][1] \in NodeIds

\* C4 as stated: a file whose read, decode or parse fails adds nothing to
\* total_loc, total_functions, total_smells, the complexity totals or the
\* Halstead totals, and is still listed in files and as a node.
C4_FailedFilesAddNothing ==
    pc = "done" =>
        /\ analysis_results.total_lines_of_code = FileSum(LocOf, Healthy)
        /\ analysis_results.total_functions = FileSum(FunctionCount, Healthy)
        /\ analysis_results.total_code_smells = FileSum(SmellCount, Healthy)
        /\ analysis_results.total_cyclomatic_complexity = FileSum(CyclomaticOf, Healthy)
        /\ analysis_results.total_cognitive_complexity = FileSum(CognitiveOf, Healthy)
        /\ analysis_results.total_halstead_volume = FileSum(VolumeOf, Healthy)
        /\ analysis_results.total_halstead_difficulty = FileSum(DifficultyOf, Healthy)
        /\ analysis_results.total_halstead_effort = FileSum(EffortOf, Healthy)
        /\ AllListed

\* The lines of code of a text, as counted before it is parsed
LocBeforeParsing(i) ==
    IF "raw" \in ContentOf(i).faults THEN ContentOf(i).fallback_loc
    ELSE ContentOf(i).loc

\* C4 as amended: a file whose read or decode fails adds nothing to any total;
\* a file that was read and does not parse adds its lines of code to total_loc
\* and its one SyntaxError smell to total_smells, and nothing to
\* total_functions, the complexity totals or the Halstead totals; both are
\* listed in files and as nodes.
C4_FailedFilesAmended ==
    pc = "done" =>
        /\ analysis_results.total_lines_of_code
             = FileSum(LocOf, Healthy) + FileSum(LocBeforeParsing, SyntaxFailed)
        /\ analysis_results.total_code_smells
             = FileSum(SmellCount, Healthy) + Cardinality(SyntaxFailed)
        /\ analysis_results.total_functions = FileSum(FunctionCount, Healthy)
        /\ analysis_results.total_cyclomatic_complexity = FileSum(CyclomaticOf, Healthy)
        /\ analysis_results.total_cognitive_complexity = FileSum(CognitiveOf, Healthy)
        /\ analysis_results.total_halstead_volume = FileSum(VolumeOf, Healthy)
        /\ analysis_results.total_halstead_difficulty = FileSum(DifficultyOf, Healthy)
        /\ analysis_results.total_halstead_effort = FileSum(EffortOf, Healthy)
        /\ AllListed

\* A returned report with an unreadable file, a file that does not parse and
\* whose raw analysis failed, and a file with functions
C4_Witness ==
    /\ pc = "done"
    /\ \E i \in 1..Len(Files) : ~ContentOf(i).readable
    /\ \E i \in SyntaxFailed : "raw" \in ContentOf(i).faults
    /\ \E i \in Healthy : Len(Files[i].functions) > 0

\* a is n / d rounded to the nearest integer
IsNearest(a, n, d) == 2 * a * d - 2 * n <= d /\ 2 * n - 2 * a * d <= d

\* C5: each Halstead average is the mean, rounded to two decimals, of the
\* Halstead total over the files that carry no error, and 0 when there is no
\* such file.
C5_HalsteadMeanOverNoError ==
    pc = "done" =>
        LET n == Cardinality(NoError)
        IN  IF n = 0
            THEN /\ analysis_results.average_halstead_volume = 0
                 /\ analysis_results.average_halstead_difficulty = 0
                 /\ analysis_results.average_halstead_effort = 0
            ELSE /\ IsNearest(analysis_results.average_halstead_volume,
                              analysis_results.total_halstead_volume, n)
                 /\ IsNearest(analysis_results.average_halstead_difficulty,
                              analysis_results.total_halstead_difficulty, n)
                 /\ IsNearest(analysis_results.average_halstead_effort,
                              analysis_results.total_halstead_effort, n)

\* C6: avg_cyclomatic is total_cyclomatic / total_functions and avg_cognitive
\* is total_cognitive / total_functions, each rounded to two decimals; both
\* are 0 when total_functions is 0.
C6_FunctionAverages ==
    pc = "done" =>
        IF analysis_results.total_functions = 0
        THEN /\ analysis_results.average_cyclomatic_complexity = 0
             /\ analysis_results.average_cognitive_complexity = 0
        ELSE /\ IsNearest(analysis_results.average_cyclomatic_complexity,
                          100 * analysis_results.total_cyclomatic_complexity,
                          analysis_results.total_functions)
             /\ IsNearest(analysis_results.average_cognitive_complexity,
                          100 * analysis_results.total_cognitive_complexity,
                          analysis_results.total_functions)

\* A returned report with three functions of cyclomatic total 8 and cognitive
\* total 5: the averages 2.67 and 1.67
C6_Witness ==
    /\ pc = "done"
    /\ analysis_results.total_functions = 3
    /\ analysis_results.total_cyclomatic_complexity = 8
    /\ analysis_results.average_cyclomatic_complexity = 267
    /\ analysis_results.total_cognitive_complexity = 5
    /\ analysis_results.average_cognitive_complexity = 167

\* C7: no failure of a step of analyze_python_file on a file of the project
\* reaches the caller of analyze_project.
C7_NoFileFailureAborts == project = "dir" => pc # "raised"

\* C8: a file that is read and does not parse is listed with exactly one
\* smell, the SyntaxError, no function, no import, no error field and the
\* lines of code counted before parsing; and it does not make the run raise.
C8_SyntaxErrorResilience ==
    /\ \A i \in SyntaxFailed :
        /\ Len(Files[i].code_smells) = 1
        /\ Files[i].code_smells[1].type = "Syntax Error"
        /\ Files[i].functions = <<>>
        /\ Files[i].imports = <<>>
        /\ "error" \notin DOMAIN Files[i]
        /\ Files[i].lines_of_code = LocBeforeParsing(i)
    /\ \A j \in 1..Len(source) :
        source[j][2].readable /\ source[j][2].parse = "SyntaxError"
            => /\ j <= Len(Files)
               /\ Files[j].relative_path = source[j][1]
               /\ source[j][1] \in NodeIds

\* A report returned for a project whose only file does not parse
C8_Witness ==
    /\ pc = "done"
    /\ Len(Files) = 1
    /\ SyntaxFailed = {1}

\* C9: for every from-import with level L >= 1 that names a module m, the
\* imports of the file hold L dots followed by m.
C9_RelativeLevelKept ==
    \A i \in 1..Len(Files) :
        \A k \in 1..Len(ContentOf(i).stmts) :
            LET node == ContentOf(i).stmts[k]
            IN  node.kind = "ImportFrom" /\ node.level >= 1 /\ node.module # ""
                    => \E j \in 1..Len(Files[i].imports) :
                         Files[i].imports[j] = Dots(node.level) \o node.module

\* C10: when a file of directory D holds `from .b import x` and D/b.py is
\* another analysed file, the returned report has both nodes and the edge
\* from the file to D/b.py.
C10_SameDirectoryRelativeImport ==
    pc = "done" =>
        \A i \in 1..Len(Files) :
            LET me     == Files[i].relative_path
                target == PathJoin(Dirname(me), "b.py")
            IN  /\ \E k \in 1..Len(ContentOf(i).stmts) :
                        ContentOf(i).stmts[k] = From("b", 1)
                /\ target # me
                /\ \E j \in 1..Len(Files) : Files[j].relative_path = target
                => /\ me \in NodeIds
                   /\ target \in NodeIds
                   /\ HasEdge(Edges, [source |-> me, target |-> target])

\* The imports of file i of the report
ImportsOf(i) == {Files[i].imports[k] : k \in 1..Len(Files[i].imports)}

\* The files the report has an edge to from file i
TargetsOf(i) ==
    {Edges[k].target : k \in {e \in 1..Len(Edges) :
                                  Edges[e].source = Files[i].relative_path}}

\* The files of the report whose derived module name is R
FilesNamed(R) == {j \in 1..Len(Files) : ModuleName(Files[j].relative_path) = R}

\* C11: absolute import, exact match first. In the returned report, when an
\* import R of a file F has no leading dot and is the module name of an
\* analysed file T other than F, the edge (F, T) is there; and when every
\* import of F is such an R, F has edges to files so named only (the prefix
\* match added none): with p/__init__.py and p/b.py, `import p.b` gives the
\* edge to p/b.py and none to p/__init__.py.
C11_ExactMatchFirst ==
    pc = "done" =>
        \A i \in NoError :
            /\ \A R \in ImportsOf(i) :
                 ~StartsWith(R, ".") =>
                    \A j \in FilesNamed(R) \ {i} :
                        Files[j].relative_path \in TargetsOf(i)
            /\ (\A R \in ImportsOf(i) : ~StartsWith(R, ".") /\ FilesNamed(R) # {})
                 => \A t \in TargetsOf(i) : ModuleName(t) \in ImportsOf(i)

\* C12: module-name injectivity. No two files opened so far have the same
\* derived module name, and the module -> relative_path table has one entry
\* per file.
C12_ModuleNameInjective ==
    /\ \A i, j \in 1..Len(source) :
         ModuleName(source[i][1]) = ModuleName(source[j][1]) => i = j
    /\ Len(module_to_relative(relative_to_module)) = Len(source)

\* The file lies below a directory named __pycache__, node_modules, venv or
\* env, or whose name begins with a dot
BelowSkipped(path) ==
    \E k \in 1..(Len(path) - 1) :
        \/ path[k] \in {"__pycache__", "node_modules", "venv", "env"}
        \/ SubSeq(path[k], 1, 1) = "."

\* How many files of the report have this relative path
TimesListed(relative_path) ==
    Cardinality({i \in 1..Len(Files) : Files[i].relative_path = relative_path})

\* How many nodes of the graph have this id
TimesNode(relative_path) ==
    Cardinality({i \in 1..Len(analysis_results.graph.nodes) :
                    analysis_results.graph.nodes[i].id = relative_path})

\* C13: pruning. A file below a directory named __pycache__, node_modules,
\* venv or env, or whose name begins with a dot, at any depth, is never in
\* files nor in graph.nodes; in the returned report every other .py file of
\* the tree is in files once and in graph.nodes once.
C13_Pruning ==
    \A path \in tree :
        IF BelowSkipped(path)
        THEN TimesListed(RelPath(path)) = 0 /\ TimesNode(RelPath(path)) = 0
        ELSE pc = "done" /\ EndsWith(path[Len(path)], ".py")
                => TimesListed(RelPath(path)) = 1 /\ TimesNode(RelPath(path)) = 1

\* A returned report for a tree with a file below a skipped directory that
\* lies two directories down, a file below a directory whose name begins
\* with a dot, and a listed file in a sub-directory
C13_Witness ==
    /\ pc = "done"
    /\ <<"p", "q", "__pycache__", "a.py">> \in tree
    /\ <<".git", "a.py">> \in tree
    /\ TimesListed("p/b.py") = 1
    /\ Len(Files) = 1

\* The nodes of the tree of file i
NodesOf(i) == Walk(<<ContentOf(i).tree>>)

\* The right-hand comparators of the comparisons among these nodes
RECURSIVE ComparatorsIn(_)
ComparatorsIn(nodes) ==
    IF nodes = <<>> THEN <<>>
    ELSE (IF Head(nodes).kind = "Compare" THEN Tail(Head(nodes).children) ELSE <<>>)
         \o ComparatorsIn(Tail(nodes))

\* The smells of a type in the report of file i
SmellsOfType(i, type) ==
    SelectSeq(Files[i].code_smells, LAMBDA smell : smell.type = type)

\* How many elements of the list q satisfy Test
HowMany(q, Test(_)) == Cardinality({k \in 1..Len(q) : Test(q[k])})

\* The right-hand comparators of file i that are integer literals
IntegerComparators(i) ==
    SelectSeq(ComparatorsIn(NodesOf(i)),
              LAMBDA c : c.kind = "Constant" /\ c.vtype = "int")

\* C14: MagicNumber detection. The Magic Number smells of a parsed file are,
\* one for one, the right-hand comparators of its comparisons that are
\* integer literals, each at the line of its literal: no smell for a boolean,
\* float, string or None literal, for a non-literal, or for a left operand.
C14_MagicNumberPerIntegerComparator ==
    \A i \in Healthy :
        LET expected == IntegerComparators(i)
            actual   == SmellsOfType(i, "Magic Number")
        IN  /\ Len(actual) = Len(expected)
            /\ \A k \in 1..Len(expected) :
                 HowMany(actual,
                         LAMBDA smell :
                            /\ smell.line_number = expected[k].lineno
                            /\ smell.message = "Magic number " \o expected[k].value
                                                \o " found in comparison")
                 = HowMany(expected,
                           LAMBDA c : /\ c.lineno = expected[k].lineno
                                      /\ c.value = expected[k].value)

\* The function definitions of file i, at any depth, in walk order
DefinitionsOf(i) ==
    SelectSeq(NodesOf(i), LAMBDA n : n.kind \in {"FunctionDef", "AsyncFunctionDef"})

\* The function definitions of file i with more than 5 positional parameters
LongDefinitions(i) ==
    SelectSeq(DefinitionsOf(i), LAMBDA n : n.nposonly + n.nargs > 5)

\* C15: LongParameterList detection. The Long Parameter List smells of a
\* parsed file are, one for one, its function definitions, at any nesting
\* depth, with more than 5 positional parameters, each at the line of its
\* definition; a definition with 5 or fewer yields none.
C15_LongParameterListPerDefinition ==
    \A i \in Healthy :
        LET expected == LongDefinitions(i)
            actual   == SmellsOfType(i, "Long Parameter List")
        IN  /\ Len(actual) = Len(expected)
            /\ \A k \in 1..Len(expected) :
                 HowMany(actual, LAMBDA smell : smell.line_number = expected[k].lineno)
                 = HowMany(expected, LAMBDA n : n.lineno = expected[k].lineno)

\* The files of the report that hold
\* def f(a,b,c): return 1 if a>10 else (2 if b>5 else 3)
TernaryFiles == {i \in Healthy : ContentOf(i).tree = Ternary.tree}

\* File i has one function report and the two Magic Number smells, for 10 and
\* for 5
OneReportTwoMagicNumbers(i) ==
    /\ Len(Files[i].functions) = 1
    /\ Files[i].functions[1].name = "f"
    /\ Len(Files[i].code_smells) = 2
    /\ {Files[i].code_smells[k].message : k \in 1..2}
         = {"Magic number 10 found in comparison",
            "Magic number 5 found in comparison"}
    /\ \A k \in 1..2 : Files[i].code_smells[k].type = "Magic Number"

\* C16 as stated: the function whose body is
\* `return 1 if a>10 else (2 if b>5 else 3)` is reported once, with cognitive
\* complexity 2, and the file has the two Magic Number smells for 10 and 5.
C16_ConditionalExpressionCognitiveTwo ==
    \A i \in TernaryFiles :
        /\ OneReportTwoMagicNumbers(i)
        /\ Files[i].functions[1].cognitive_complexity = 2

\* C16 as amended: that function is reported once, with cognitive complexity
\* 0 (a conditional expression adds nothing), and the file has the two Magic
\* Number smells for 10 and 5.
C16_ConditionalExpressionCognitiveZero ==
    \A i \in TernaryFiles :
        /\ OneReportTwoMagicNumbers(i)
        /\ Files[i].functions[1].cognitive_complexity = 0

\* A returned report that lists a file holding that function
C16_Witness == pc = "done" /\ TernaryFiles # {}

\* The walk in which the body of an except handler is one level deeper than
\* the handler, as the bodies of if, while, for, try and with are
RECURSIVE HandlerNestingWalk(_, _)
HandlerNestingWalk(node, nesting) ==
    CognitiveIncrement(node, nesting)
    + SumSeq([k \in 1..Len(node.children) |->
                 HandlerNestingWalk(node.children[k],
                                    IF node.kind = "ExceptHandler" THEN nesting + 1
                                    ELSE ChildNesting(node, nesting))])

\* The function definitions of file i that the block of report k stands for:
\* same name, same line
OwnDefinitions(i, k) ==
    SelectSeq(DefinitionsOf(i),
              LAMBDA n : /\ n.name = Files[i].functions[k].name
                         /\ n.lineno = Files[i].functions[k].line_number)

\* No two function definitions of file i have the same name
DistinctNames(i) ==
    \A m, n \in 1..Len(DefinitionsOf(i)) :
        DefinitionsOf(i)[m].name = DefinitionsOf(i)[n].name => m = n

\* C17: cognitive nesting of except handlers. An except handler met at
\* nesting n adds 1 + n and its body is visited at nesting n + 1, so each
\* function report carries the value of the walk that nests handler bodies.
\* Stated for the files whose definitions have distinct names.
C17_HandlerBodyNested ==
    \A i \in Healthy :
        DistinctNames(i) =>
            \A k \in 1..Len(Files[i].functions) :
                OwnDefinitions(i, k) # <<>> =>
                    Files[i].functions[k].cognitive_complexity
                        = HandlerNestingWalk(OwnDefinitions(i, k)[1], 0)

\* C18: each function report carries the cognitive complexity of the walk of
\* its own definition, also when several definitions of the file have its
\* name; a report whose block is no function definition carries 0.
C18_ReportOfOwnDefinition ==
    \A i \in Healthy :
        \A k \in 1..Len(Files[i].functions) :
            Files[i].functions[k].cognitive_complexity
                = IF OwnDefinitions(i, k) # <<>>
                  THEN calculate_cognitive_complexity_from_ast(OwnDefinitions(i, k)[1])
                  ELSE 0

\* The import is made of dots only
PureDots(R) == Len(R) >= 1 /\ R = Dots(Len(R))

\* The directory n parents up from dir, as a one-element list; the empty list
\* when that is above the project root
RECURSIVE ParentsUp(_, _)
ParentsUp(dir, n) ==
    IF n = 0 THEN <<dir>>
    ELSE IF dir = "" THEN <<>>
    ELSE ParentsUp(Dirname(dir), n - 1)

\* The __init__.py a pure-dots import R of file i stands for, "" when it
\* lies above the project root
InitOf(i, R) ==
    LET up == ParentsUp(Dirname(Files[i].relative_path), Len(R) - 1)
    IN  IF up = <<>> THEN "" ELSE PathJoin(up[1], "__init__.py")

\* The relative paths of the analysed files
Analysed == {Files[j].relative_path : j \in 1..Len(Files)}

\* C19: pure-dots relative import. In the returned report, an import of L
\* dots of a file F of directory D gives the edge from F to the __init__.py
\* of the directory L - 1 parents up from D when that file is analysed (the
\* project root included) and is not F; a file all of whose imports are
\* pure dots has no other edge.
C19_PureDotsToInit ==
    pc = "done" =>
        \A i \in NoError :
            LET dots     == {R \in ImportsOf(i) : PureDots(R)}
                expected == ({InitOf(i, R) : R \in dots} \cap Analysed)
                                \ {Files[i].relative_path}
            IN  /\ expected \subseteq TargetsOf(i)
                /\ dots = ImportsOf(i) => TargetsOf(i) \subseteq expected

\* The orders in which the walk could have met the files of the report
\* instead: the files of each directory among themselves, in any order
SameDirectoryOrders ==
    {o \in Orders(1..Len(Files)) :
        \A i \in 1..Len(Files) :
            Dirname(Files[o[i]].relative_path) = Dirname(Files[i].relative_path)}

\* The edges of the second pass had the first pass met the files in order o
EdgesFor(o) ==
    SecondPass(<<>>,
               [i \in 1..Len(Files) |-> Files[o[i]]],
               [i \in 1..Len(Files) |-> relative_to_module[o[i]]])

\* The set of the edges of a list
EdgeSet(edges) == {edges[k] : k \in 1..Len(edges)}

\* Some import of the report is resolved by the prefix match of lines 542-545
UsesPrefixMatch ==
    LET m2r == module_to_relative(relative_to_module)
    IN  \E i \in NoError : \E R \in ImportsOf(i) :
            /\ ~StartsWith(R, ".")
            /\ ~HasKey(m2r, R)
            /\ PrefixMatch(R, m2r) # ""

\* C20: two-pass order independence. When no import of the returned report
\* is resolved by the prefix match, the set of edges is the one the run would
\* have returned had the walk met the files of each directory in any other
\* order.
C20_EdgesIndependentOfOrder ==
    pc = "done" /\ ~UsesPrefixMatch =>
        \A o \in SameDirectoryOrders : EdgeSet(EdgesFor(o)) = EdgeSet(Edges)

=============================================================================
